---- MODULE Spec2Model ----
(***************************************************************************)
(* Model of src/binlog-tailer.js: MysqlBinlogTailer.prototype.stream, its  *)
(* byte cursor (read / skip / stop / readChunk), the event decoder         *)
(* (expectHeader, expectFirstEvent, expectEvent, parse*Event) and the      *)
(* rotation hand-off.  Every node.js callback is one action; a callback's  *)
(* synchronous call chain (read -> readChunk, skip, stop, emit) is part of *)
(* that action.  Files are byte sequences; all integers the decoder uses   *)
(* are computed from the bytes with readInt / readSmallint.                *)
(*                                                                         *)
(* Strings (database, query text, file names) are kept as the byte         *)
(* sequences that Buffer.toString('utf-8') is applied to; the model's      *)
(* files only hold ASCII bytes there.  Dates are kept as their seconds.    *)
(***************************************************************************)
EXTENDS Integers, Sequences, FiniteSets, TLC

\* ------------------------------------------------------------------------
\* Bounds of the model (not program constants)
\* ------------------------------------------------------------------------

\* longest event sequence (after the format-description event) of the
\* exhaustively enumerated logs
MaxEvents == 2

\* ------------------------------------------------------------------------
\* Program constants
\* ------------------------------------------------------------------------

\* `undefined` (var lastInsertId = undefined; fastForwardUntil unset; stat unset)
Undef == -1

\* read(4, ...) in expectHeader
MagicLen == 4

\* read(19, ...) in expectFirstEvent / expectEvent; also buffer.length of a header
HeaderLen == 19

\* read(9, ...) in parseAutoInt
AutoIntLen == 9

FORMAT_DESCRIPTION_EVENT == 15
QUERY_EVENT == 2
STOP_EVENT == 3
ROTATE_EVENT == 4
INTVAR_EVENT == 5
LAST_INSERT_ID_EVENT == 1
INSERT_ID_EVENT == 2

\* the magic number tested in expectHeader: 0xfe 0x62 0x69 0x6e
Magic == <<254, 98, 105, 110>>

\* ------------------------------------------------------------------------
\* Buffers: 0-based byte access as in JavaScript
\* ------------------------------------------------------------------------

\* buffer[i]  (undefined beyond the buffer's end)
At(buffer, i) == IF i < Len(buffer) THEN buffer[i + 1] ELSE Undef

\* buffer.slice(from, to)  (to exclusive, clamped to the buffer's length)
Slice(buffer, from, to) ==
    LET f == IF from > Len(buffer) THEN Len(buffer) ELSE from
        t == IF to > Len(buffer) THEN Len(buffer) ELSE to
    IN  IF t <= f THEN <<>> ELSE SubSeq(buffer, f + 1, t)

\* buffer.slice(from)
SliceFrom(buffer, from) == Slice(buffer, from, Len(buffer))

\* readInt(buffer, offset): little-endian unsigned 32 bit
readInt(buffer, offset) ==
    At(buffer, offset + 3) * 16777216 +
    At(buffer, offset + 2) * 65536 +
    At(buffer, offset + 1) * 256 +
    At(buffer, offset)

\* readSmallint(buffer, offset): little-endian unsigned 16 bit
readSmallint(buffer, offset) ==
    At(buffer, offset + 1) * 256 + At(buffer, offset)

\* readTimestamp(buffer, offset): new Date(seconds * 1000), kept as seconds
readTimestamp(buffer, offset) == readInt(buffer, offset)

\* JavaScript truthiness of a number-or-undefined (lastInsertId || autoIncrement)
Truthy(x) == x # Undef /\ x # 0

\* ------------------------------------------------------------------------
\* The log files the server writes (the environment).  An event is kept with
\* what the server meant (type, ts, sel, val, db, text, name) next to the
\* bytes of its body, so that what the decoder publishes can be compared
\* with what was written.
\* ------------------------------------------------------------------------

LE32(v) == << v % 256, (v \div 256) % 256, (v \div 65536) % 256, (v \div 16777216) % 256 >>

LE16(v) == << v % 256, (v \div 256) % 256 >>

Ev(type, ts, body, sel, val, db, text) ==
    [type |-> type, ts |-> ts, body |-> body, sel |-> sel, val |-> val,
     db |-> db, text |-> text]

\* thread id (4), exec time (4), schema length (1), error code (2),
\* status-vars length (2), status vars, schema, 0, query text
QueryBody(db, text, status) ==
    <<7, 0, 0, 0>> \o <<0, 0, 0, 0>> \o <<Len(db)>> \o <<0, 0>> \o
    LE16(Len(status)) \o status \o db \o <<0>> \o text

QueryEv(ts, db, text, status) ==
    Ev(QUERY_EVENT, ts, QueryBody(db, text, status), 0, 0, db, text)

StopEv(ts) == Ev(STOP_EVENT, ts, <<>>, 0, 0, <<>>, <<>>)

\* selector byte, then the value as 8 bytes little-endian (below 2^32 here)
IntVarEv(ts, sel, val) ==
    Ev(INTVAR_EVENT, ts, <<sel>> \o LE32(val) \o <<0, 0, 0, 0>>, sel, val, <<>>, <<>>)

\* position (8 bytes), then the next file's name
RotateEv(ts, name) ==
    Ev(ROTATE_EVENT, ts, <<4, 0, 0, 0, 0, 0, 0, 0>> \o name, 0, 0, <<>>, name)

\* an event of a type the decoder does not know (16 is XID_EVENT)
OtherEv(ts, type, body) == Ev(type, ts, body, 0, 0, <<>>, <<>>)

FormatEv(ts) == Ev(FORMAT_DESCRIPTION_EVENT, ts, <<4, 0>>, 0, 0, <<>>, <<>>)

\* the 19-byte common header: timestamp, type code, server id, event length,
\* next position, flags
EncodeHeader(e) ==
    LE32(e.ts) \o <<e.type>> \o <<1, 0, 0, 0>> \o LE32(HeaderLen + Len(e.body)) \o
    <<0, 0, 0, 0>> \o <<0, 0>>

EncodeEvent(e) == EncodeHeader(e) \o e.body

EventLen(e) == HeaderLen + Len(e.body)

RECURSIVE EncodeEvents(_)
EncodeEvents(es) ==
    IF es = <<>> THEN <<>> ELSE EncodeEvent(Head(es)) \o EncodeEvents(Tail(es))

\* a log: its first four bytes and its events (the first is normally the
\* format-description event)
Log(magic, events) == [magic |-> magic, events |-> events]

Bytes(log) == log.magic \o EncodeEvents(log.events)

RECURSIVE SumLen(_, _)
SumLen(es, n) == IF n = 0 THEN 0 ELSE EventLen(es[n]) + SumLen(es, n - 1)

\* offset of the first byte of the i-th event
EventStart(log, i) == Len(log.magic) + SumLen(log.events, i - 1)

EventEnd(log, i) == EventStart(log, i) + EventLen(log.events[i])

FileSize(log) == Len(log.magic) + SumLen(log.events, Len(log.events))

\* the sizes at which the growing file is observed: empty, after the magic,
\* at every event boundary and after every event header
Sizes(log) ==
    {0, Len(log.magic), FileSize(log)} \cup
    { EventStart(log, i) : i \in 1..Len(log.events) } \cup
    { EventStart(log, i) + HeaderLen : i \in 1..Len(log.events) }

\* ------------------------------------------------------------------------
\* The logs of the model
\* ------------------------------------------------------------------------

\* the files of the binlog directory: file f is named by the one byte "0"+f
Files == {1, 2}

Name(f) == << 48 + f >>

QueryA == QueryEv(300, <<97>>, <<120>>, <<>>)

\* a query with a status-vars block, a longer schema name and text
QueryB == QueryEv(301, <<97, 112>>, <<121, 122>>, <<9, 8>>)

\* the values of the auto-increment hints: zero, a two-byte value, and
\* 2^31 - 1 (the largest integer TLC computes with; the code's doubles hold
\* every value below 2^32 exactly)
HintValues == {0, 513, 2147483647}

IntVarA == IntVarEv(500, LAST_INSERT_ID_EVENT, 513)

RotateA(f) == RotateEv(600, Name(f + 1))

FormatA(f) == FormatEv(256 + f)

Kinds == {"query", "stop", "other", "intvar", "rotate"}

\* the event of kind k written at position n of file f; its timestamp
\* tells the position
Make(k, f, n) ==
    CASE k = "query" -> QueryEv(300 + n, <<97>>, <<120>>, <<>>)
      [] k = "stop" -> StopEv(300 + n)
      [] k = "other" -> OtherEv(300 + n, 16, <<5, 6>>)
      [] k = "intvar" -> IntVarEv(300 + n, LAST_INSERT_ID_EVENT, 513)
      [] k = "rotate" -> RotateEv(300 + n, Name(f + 1))

SeqsUpTo(S, n) == UNION { [1..k -> S] : k \in 0..n }

\* every log of file f with at most MaxEvents events after the
\* format-description event
EnumLogs(f) ==
    { Log(Magic, <<FormatA(f)>> \o [n \in 1..Len(ks) |-> Make(ks[n], f, n)]) :
        ks \in SeqsUpTo(Kinds, MaxEvents) }

\* a hint, then two queries; two hints, then a query
CarryLogs(f) ==
    { Log(Magic, <<FormatA(f), IntVarEv(500, sel, v), QueryA, QueryB>>) :
        sel \in {LAST_INSERT_ID_EVENT, INSERT_ID_EVENT}, v \in HintValues } \cup
    { Log(Magic, <<FormatA(f), IntVarEv(500, LAST_INSERT_ID_EVENT, v),
                   IntVarEv(501, INSERT_ID_EVENT, 7), QueryB>>) : v \in HintValues } \cup
    { Log(Magic, <<FormatA(f), IntVarEv(500, 3, 513), QueryA>>) }

\* a wrong magic number; a first event that is not the format description
BadLogs(f) ==
    { Log(<<254, 98, 105, 111>>, <<FormatA(f), QueryA>>),
      Log(<<0, 98, 105, 110>>, <<FormatA(f)>>),
      Log(Magic, <<OtherEv(256 + f, 1, <<4, 0>>), QueryA>>),
      Log(Magic, <<QueryA, StopEv(400)>>) }

\* "app" and "INSERT INTO t VALUES (1)"
AppName == <<97, 112, 112>>

InsertText ==
    <<73, 78, 83, 69, 82, 84, 32, 73, 78, 84, 79, 32, 116, 32,
      86, 65, 76, 85, 69, 83, 32, 40, 49, 41>>

\* format description, the Query for InsertText against AppName, Stop
ExampleLog(f) ==
    Log(Magic, <<FormatA(f), QueryEv(700, AppName, InsertText, <<>>), StopEv(701)>>)

\* a Query whose status-vars block is longer than 255 bytes (so is the event)
LongStatusLog(f) ==
    Log(Magic, <<FormatA(f),
                 QueryEv(800, AppName, <<120, 121>>, [n \in 1..257 |-> 9]),
                 QueryB>>)

AllLogs(f) ==
    EnumLogs(f) \cup CarryLogs(f) \cup BadLogs(f) \cup {ExampleLog(f), LongStatusLog(f)}

\* logs of the first file that end in a rotation
RotLogs ==
    { Log(Magic, <<FormatA(1), RotateA(1)>>),
      Log(Magic, <<FormatA(1), IntVarA, RotateA(1)>>) }

NextDefault == Log(Magic, <<FormatA(2), QueryA>>)

\* what the directory will hold: <<log of file 1, log of file 2>>
Scenarios ==
    { <<l, NextDefault>> : l \in AllLogs(1) } \cup
    { <<r, l>> : r \in RotLogs, l \in AllLogs(2) }

FileNamed(path) == CHOOSE f \in Files : Name(f) = path

Exists(path) == \E f \in Files : Name(f) = path

\* a log is valid when it starts with the magic number and the
\* format-description event
ValidLog(log) ==
    /\ log.magic = Magic
    /\ Len(log.events) >= 1
    /\ log.events[1].type = FORMAT_DESCRIPTION_EVENT

\* ------------------------------------------------------------------------
\* State
\* ------------------------------------------------------------------------

VARIABLES
    logs,          \* the content each file will have once fully written
    sess,          \* the sessions (closures of stream()), in creation order
    out,           \* the notifications emitted on the tailer, in order
    pendingWatch,  \* path watched by parseRotateEvent's fs.watchFile, or <<>>
    thrown         \* the exception that escaped a callback, or "none"; an
                   \* uncaught exception ends the process, so no callback
                   \* runs once it is set

vars == <<logs, sess, out, pendingWatch, thrown>>

\* the closure variables of one stream() call, after its synchronous part
\* (expectHeader() has registered the first request; fs.stat is pending)
NewSession(id, file, fastForward) ==
    [ id |-> id, file |-> file, fastForward |-> fastForward,
      phase |-> "stat", stat |-> Undef, handle |-> "none", watching |-> FALSE,
      ready |-> FALSE, bytesWanted |-> MagicLen, didReadCallback |-> "expectHeader",
      fileOffset |-> 0, fastForwardUntil |-> Undef,
      lastInsertId |-> Undef, autoIncrement |-> Undef, ts |-> 0,
      inflight |-> FALSE, readPos |-> 0, readLen |-> 0,
      \* history: fs.read calls issued, fs.read callbacks run, fileOffset right
      \* after the last `fileOffset += bytesWanted`, and for every emit whether
      \* the session's handle was open at that moment
      issued |-> 0, returned |-> 0, lastReadEnd |-> 0, emitLive |-> <<>> ]

\* a notification (that.emit): kind is the emitted event's name
Notif(kind, id, ts, path, db, text, hasMeta, lastInsertId, autoIncrement, cause) ==
    [ kind |-> kind, sid |-> id, ts |-> ts, path |-> path, db |-> db, text |-> text,
      hasMeta |-> hasMeta, lastInsertId |-> lastInsertId,
      autoIncrement |-> autoIncrement, cause |-> cause ]

LogN(id, ts, file) == Notif("log", id, ts, file, <<>>, <<>>, FALSE, Undef, Undef, "")

QueryN(id, ts, db, text, hasMeta, lastInsertId, autoIncrement) ==
    Notif("query", id, ts, <<>>, db, text, hasMeta, lastInsertId, autoIncrement, "")

StopN(id, ts) == Notif("stop", id, ts, <<>>, <<>>, <<>>, FALSE, Undef, Undef, "")

RotateN(id, next) == Notif("rotate", id, 0, next, <<>>, <<>>, FALSE, Undef, Undef, "")

ErrorN(id, cause) == Notif("error", id, 0, <<>>, <<>>, <<>>, FALSE, Undef, Undef, cause)

\* the running context of a callback: the session's variables, what it has
\* emitted, the path parseRotateEvent started to watch, the exception thrown
Ctx(s) == [ s |-> s, emit |-> <<>>, next |-> <<>>, thrown |-> "none" ]

emit(c, n) ==
    [c EXCEPT !.emit = Append(@, n),
              !.s.emitLive = Append(@, c.s.handle = "open")]

\* ------------------------------------------------------------------------
\* File handling functions (the byte cursor)
\* ------------------------------------------------------------------------

\* readChunk without the test stat.size < fileOffset + bytesWanted: a read is
\* issued although the data is not known to be there
readChunkNoWait(c) ==
    IF ~c.s.ready THEN c
    ELSE IF c.s.bytesWanted = 0 THEN [c EXCEPT !.thrown = "No bytes wanted?"]
    ELSE [c EXCEPT !.s.ready = FALSE, !.s.inflight = TRUE,
                   !.s.readPos = c.s.fileOffset, !.s.readLen = c.s.bytesWanted,
                   !.s.issued = @ + 1]

\* readChunk without `ready = false` before fs.read
readChunkStaysReady(c) ==
    IF ~c.s.ready THEN c
    ELSE IF c.s.bytesWanted = 0 THEN [c EXCEPT !.thrown = "No bytes wanted?"]
    ELSE IF c.s.stat < c.s.fileOffset + c.s.bytesWanted THEN c
    ELSE [c EXCEPT !.s.inflight = TRUE,
                   !.s.readPos = c.s.fileOffset, !.s.readLen = c.s.bytesWanted,
                   !.s.issued = @ + 1]

\* readChunk that compares stat.size with fileOffset alone
readChunkIgnoresLength(c) ==
    IF ~c.s.ready THEN c
    ELSE IF c.s.bytesWanted = 0 THEN [c EXCEPT !.thrown = "No bytes wanted?"]
    ELSE IF c.s.stat < c.s.fileOffset THEN c
    ELSE [c EXCEPT !.s.ready = FALSE, !.s.inflight = TRUE,
                   !.s.readPos = c.s.fileOffset, !.s.readLen = c.s.bytesWanted,
                   !.s.issued = @ + 1]

\* function readChunk(): returns when not ready or when the data is not
\* there yet, throws when nothing is wanted, otherwise issues fs.read at
\* fileOffset for bytesWanted bytes
readChunk(c) ==
    IF ~c.s.ready THEN c
    ELSE IF c.s.bytesWanted = 0 THEN [c EXCEPT !.thrown = "No bytes wanted?"]
    ELSE IF c.s.stat < c.s.fileOffset + c.s.bytesWanted THEN c
    ELSE [c EXCEPT !.s.ready = FALSE, !.s.inflight = TRUE,
                   !.s.readPos = c.s.fileOffset, !.s.readLen = c.s.bytesWanted,
                   !.s.issued = @ + 1]

\* function read(bytes, cb)
read(c, bytes, cb) ==
    readChunk([c EXCEPT !.s.bytesWanted = bytes, !.s.didReadCallback = cb])

\* function skip(offset)
skip(c, offset) == [c EXCEPT !.s.fileOffset = @ + offset]

\* function stop(): fs.unwatchFile(file); fs.close(handle); ready = false
stop(c) == [c EXCEPT !.s.watching = FALSE, !.s.handle = "closed", !.s.ready = FALSE]

\* ------------------------------------------------------------------------
\* Binlog parsers.  f() is the function f of the source up to its read();
\* fCb(c, buffer) is the callback it passes to read().
\* ------------------------------------------------------------------------

expectHeader(c) == read(c, MagicLen, "expectHeader")

expectFirstEvent(c) == read(c, HeaderLen, "expectFirstEvent")

expectEvent(c) == read(c, HeaderLen, "expectEvent")

\* a magic number test that only looks at the last three bytes
IsMagicLoose(buffer) ==
    At(buffer, 1) = 98 /\ At(buffer, 2) = 105 /\ At(buffer, 3) = 110

\* the magic number test of expectHeader
IsMagic(buffer) ==
    At(buffer, 0) = 254 /\ At(buffer, 1) = 98 /\ At(buffer, 2) = 105 /\ At(buffer, 3) = 110

expectHeaderCb(c, buffer) ==
    IF IsMagic(buffer)
    THEN expectFirstEvent(c)
    ELSE emit(stop(c), ErrorN(c.s.id, "Invalid binlog"))

expectFirstEventCb(c, buffer) ==
    LET ts == readTimestamp(buffer, 0) IN
    IF At(buffer, 4) = FORMAT_DESCRIPTION_EVENT
    THEN expectEvent(emit(skip(c, readInt(buffer, 9) - 19), LogN(c.s.id, ts, c.s.file)))
    ELSE emit(stop(c), ErrorN(c.s.id, "Invalid binlog version"))

\* the fast-forward test of parseQueryEvent: fastForwardUntil > fileOffset
\* (false when fastForwardUntil is undefined)
FastForwarding(s) == s.fastForwardUntil # Undef /\ s.fastForwardUntil > s.fileOffset

parseQueryEvent(c, buffer) ==
    LET ts == readTimestamp(buffer, 0)
        eventLength == readInt(buffer, 9)
    IN  IF FastForwarding(c.s)
        THEN expectEvent(skip(c, eventLength - Len(buffer)))
        ELSE read([c EXCEPT !.s.ts = ts], eventLength - Len(buffer), "parseQueryEvent")

\* the test `lastInsertId || autoIncrement` of parseQueryEvent's callback
HasMeta(s) == Truthy(s.lastInsertId) \/ Truthy(s.autoIncrement)

\* a Query callback that takes the text from offset 13 + L + S, separator
\* byte included
parseQueryEventCbKeepsSeparator(c, buffer) ==
    LET nameLen == At(buffer, 8)
        statusLen == readSmallint(buffer, 11)
        hasMeta == HasMeta(c.s)
        db == Slice(buffer, 13 + statusLen, 13 + statusLen + nameLen)
        query == SliceFrom(buffer, 13 + nameLen + statusLen)
        n == QueryN(c.s.id, c.s.ts, db, query, hasMeta,
                    IF hasMeta THEN c.s.lastInsertId ELSE Undef,
                    IF hasMeta THEN c.s.autoIncrement ELSE Undef)
        c1 == IF hasMeta
              THEN [c EXCEPT !.s.lastInsertId = Undef, !.s.autoIncrement = Undef]
              ELSE c
    IN  expectEvent(emit(c1, n))

parseQueryEventCb(c, buffer) ==
    LET nameLen == At(buffer, 8)
        statusLen == readSmallint(buffer, 11)
        hasMeta == HasMeta(c.s)
        db == Slice(buffer, 13 + statusLen, 13 + statusLen + nameLen)
        query == SliceFrom(buffer, 14 + nameLen + statusLen)
        n == QueryN(c.s.id, c.s.ts, db, query, hasMeta,
                    IF hasMeta THEN c.s.lastInsertId ELSE Undef,
                    IF hasMeta THEN c.s.autoIncrement ELSE Undef)
        c1 == IF hasMeta
              THEN [c EXCEPT !.s.lastInsertId = Undef, !.s.autoIncrement = Undef]
              ELSE c
    IN  expectEvent(emit(c1, n))

parseAutoInt(c, buffer) == read(c, AutoIntLen, "parseAutoInt")

parseAutoIntCb(c, buffer) ==
    LET c1 == IF At(buffer, 0) = LAST_INSERT_ID_EVENT
              THEN [c EXCEPT !.s.lastInsertId = readInt(buffer, 1)]
              ELSE IF At(buffer, 0) = INSERT_ID_EVENT
              THEN [c EXCEPT !.s.autoIncrement = readInt(buffer, 1)]
              ELSE c
    IN  expectEvent(c1)

parseRotateEvent(c, buffer) ==
    LET eventLength == readInt(buffer, 9)
    IN  read(c, eventLength - Len(buffer), "parseRotateEvent")

\* a Rotate callback that publishes and hands over without calling stop()
parseRotateEventCbNoStop(c, buffer) ==
    LET next == SliceFrom(buffer, 8)
    IN  [emit(c, RotateN(c.s.id, next)) EXCEPT !.next = next]

\* stop(); emit 'rotate'; fs.watchFile(next, ...)
parseRotateEventCb(c, buffer) ==
    LET next == SliceFrom(buffer, 8)
    IN  [emit(stop(c), RotateN(c.s.id, next)) EXCEPT !.next = next]

\* a Stop handler that takes the timestamp from the event-length field
parseStopEventWrongField(c, buffer) ==
    LET ts == readTimestamp(buffer, 9) IN emit(c, StopN(c.s.id, ts))

parseStopEvent(c, buffer) ==
    LET ts == readTimestamp(buffer, 0) IN emit(c, StopN(c.s.id, ts))

\* a default branch that skips the whole event length after the header
skipEventWhole(c, buffer) == skip(c, readInt(buffer, 9))

\* the default branch of expectEvent's switch
skipEvent(c, buffer) == skip(c, readInt(buffer, 9) - 19)

expectEventCb(c, buffer) ==
    CASE At(buffer, 4) = QUERY_EVENT -> parseQueryEvent(c, buffer)
      [] At(buffer, 4) = STOP_EVENT -> parseStopEvent(c, buffer)
      [] At(buffer, 4) = ROTATE_EVENT -> parseRotateEvent(c, buffer)
      [] At(buffer, 4) = INTVAR_EVENT -> parseAutoInt(c, buffer)
      [] OTHER -> skipEvent(c, buffer)

\* didReadCallback(buffer)
didReadCallback(c, buffer) ==
    CASE c.s.didReadCallback = "expectHeader" -> expectHeaderCb(c, buffer)
      [] c.s.didReadCallback = "expectFirstEvent" -> expectFirstEventCb(c, buffer)
      [] c.s.didReadCallback = "expectEvent" -> expectEventCb(c, buffer)
      [] c.s.didReadCallback = "parseQueryEvent" -> parseQueryEventCb(c, buffer)
      [] c.s.didReadCallback = "parseAutoInt" -> parseAutoIntCb(c, buffer)
      [] c.s.didReadCallback = "parseRotateEvent" -> parseRotateEventCb(c, buffer)

\* ------------------------------------------------------------------------
\* Initial state and the callbacks
\* ------------------------------------------------------------------------

\* The tailer's constructor calls this.stream(latest, true); stream is also
\* a method of the prototype that can be called on a file without the
\* fastForward argument.
Init ==
    /\ logs \in Scenarios
    /\ \E fastForward \in BOOLEAN : sess = << NewSession(1, Name(1), fastForward) >>
    /\ out = <<>>
    /\ pendingWatch = <<>>
    /\ thrown = "none"

LogOf(s) == logs[FileNamed(s.file)]

\* what a callback that ran in context c leaves behind
Finish(i, c) ==
    /\ sess' = [sess EXCEPT ![i] = c.s]
    /\ out' = out \o c.emit
    /\ pendingWatch' = IF c.next # <<>> THEN c.next ELSE pendingWatch
    /\ thrown' = c.thrown
    /\ UNCHANGED logs

\* fs.stat callback, err set
StatError(i) ==
    /\ thrown = "none"
    /\ sess[i].phase = "stat"
    /\ Finish(i, emit(Ctx([sess[i] EXCEPT !.phase = "failed"]), ErrorN(i, "stat")))

\* an fs.stat callback that records the threshold whatever fastForward is
StatDoneAlwaysThreshold(i) ==
    /\ thrown = "none"
    /\ sess[i].phase = "stat"
    /\ Exists(sess[i].file)
    /\ \E val \in Sizes(LogOf(sess[i])) :
         Finish(i, Ctx([sess[i] EXCEPT
                          !.phase = "open",
                          !.stat = val,
                          !.fastForwardUntil = val]))

\* fs.stat callback: stat = val; fastForwardUntil = stat.size; fs.open(...)
StatDone(i) ==
    /\ thrown = "none"
    /\ sess[i].phase = "stat"
    /\ Exists(sess[i].file)
    /\ \E val \in Sizes(LogOf(sess[i])) :
         Finish(i, Ctx([sess[i] EXCEPT
                          !.phase = "open",
                          !.stat = val,
                          !.fastForwardUntil = IF sess[i].fastForward THEN val ELSE Undef]))

\* fs.open callback, err set
OpenError(i) ==
    /\ thrown = "none"
    /\ sess[i].phase = "open"
    /\ Finish(i, emit(Ctx([sess[i] EXCEPT !.phase = "failed"]), ErrorN(i, "open")))

\* fs.open callback: handle = val; ready = true; readChunk(); fs.watchFile(...)
OpenDone(i) ==
    /\ thrown = "none"
    /\ sess[i].phase = "open"
    /\ LET c == readChunk(Ctx([sess[i] EXCEPT !.phase = "run", !.handle = "open",
                                              !.ready = TRUE]))
       IN  Finish(i, [c EXCEPT !.s.watching = (c.thrown = "none")])

\* a watch listener that records the new size and does not call readChunk
WatchFileNoRetry(i) ==
    /\ thrown = "none"
    /\ sess[i].watching
    /\ \E val \in Sizes(LogOf(sess[i])) :
         /\ val >= sess[i].stat
         /\ Finish(i, Ctx([sess[i] EXCEPT !.stat = val]))

\* the listener of fs.watchFile(file, ...): stat = val; readChunk().  The
\* file only grows, so the size reported is at least the last one.
WatchFile(i) ==
    /\ thrown = "none"
    /\ sess[i].watching
    /\ \E val \in Sizes(LogOf(sess[i])) :
         /\ val >= sess[i].stat
         /\ Finish(i, readChunk(Ctx([sess[i] EXCEPT !.stat = val])))

\* the bytes fs.read delivers
ReadBuffer(s) == Slice(Bytes(LogOf(s)), s.readPos, s.readPos + s.readLen)

\* fs.read callback, no error: fileOffset += bytesWanted; bytesWanted = 0;
\* ready = true; didReadCallback(buffer)
ReadDone(i) ==
    /\ thrown = "none"
    /\ sess[i].inflight
    /\ LET s == sess[i]
           c == Ctx([s EXCEPT !.inflight = FALSE,
                              !.returned = @ + 1,
                              !.lastReadEnd = s.fileOffset + s.bytesWanted,
                              !.fileOffset = @ + s.bytesWanted,
                              !.bytesWanted = 0,
                              !.ready = TRUE])
       IN  Finish(i, didReadCallback(c, ReadBuffer(s)))

\* fs.read callback, err set: stop(); this.emit('error', err).  The callback
\* is a strict-mode function called without a receiver, so `this` is
\* undefined and the emit throws a TypeError.
ReadError(i) ==
    /\ thrown = "none"
    /\ sess[i].inflight
    /\ LET c == stop(Ctx([sess[i] EXCEPT !.inflight = FALSE, !.returned = @ + 1,
                                          !.phase = "readerror"]))
       IN  Finish(i, [c EXCEPT !.thrown = "TypeError"])

\* a rotation listener whose new session inherits the carry of the last one
RotateWatchKeepCarry ==
    /\ thrown = "none"
    /\ pendingWatch # <<>>
    /\ Exists(pendingWatch)
    /\ sess' = Append(sess, [NewSession(Len(sess) + 1, pendingWatch, FALSE) EXCEPT
                                !.lastInsertId = sess[Len(sess)].lastInsertId,
                                !.autoIncrement = sess[Len(sess)].autoIncrement])
    /\ pendingWatch' = <<>>
    /\ UNCHANGED <<logs, out, thrown>>

\* a rotation listener that starts the next session in fast-forward mode
RotateWatchFastForward ==
    /\ thrown = "none"
    /\ pendingWatch # <<>>
    /\ Exists(pendingWatch)
    /\ sess' = Append(sess, NewSession(Len(sess) + 1, pendingWatch, TRUE))
    /\ pendingWatch' = <<>>
    /\ UNCHANGED <<logs, out, thrown>>

\* the listener parseRotateEvent registers with fs.watchFile(next, ...):
\* fs.unwatchFile(next); that.stream(next)
RotateWatch ==
    /\ thrown = "none"
    /\ pendingWatch # <<>>
    /\ Exists(pendingWatch)
    /\ sess' = Append(sess, NewSession(Len(sess) + 1, pendingWatch, FALSE))
    /\ pendingWatch' = <<>>
    /\ UNCHANGED <<logs, out, thrown>>

Next ==
    \/ \E i \in DOMAIN sess : StatError(i)
    \/ \E i \in DOMAIN sess : StatDone(i)
    \/ \E i \in DOMAIN sess : OpenError(i)
    \/ \E i \in DOMAIN sess : OpenDone(i)
    \/ \E i \in DOMAIN sess : WatchFile(i)
    \/ \E i \in DOMAIN sess : ReadDone(i)
    \/ \E i \in DOMAIN sess : ReadError(i)
    \/ RotateWatch

Spec == Init /\ [][Next]_vars

\* every session reads its own file, so there are at most as many sessions
\* as files
SessionIds == 1..Cardinality(Files)

\* Node calls the callback of every fs.read it has accepted (with or without
\* an error) unless the process has died of an uncaught exception
FairSpec ==
    /\ Spec
    /\ \A i \in SessionIds :
          WF_vars(i \in DOMAIN sess /\ (ReadError(i) \/ ReadDone(i)))

\* ------------------------------------------------------------------------
\* Vocabulary of the properties
\* ------------------------------------------------------------------------

Events(i) == LogOf(sess[i]).events

\* the notifications session i has published, in order
NotifsOf(i) == SelectSeq(out, LAMBDA n : n.sid = i)

\* how many notifications of that kind and timestamp session i has published
Count(i, kind, ts) ==
    Cardinality({ k \in 1..Len(out) :
                    out[k].sid = i /\ out[k].kind = kind /\ out[k].ts = ts })

CountKind(i, kind) ==
    Cardinality({ k \in 1..Len(out) : out[k].sid = i /\ out[k].kind = kind })

\* session i is live, knows the whole file and has no read in flight:
\* decoding has come to rest
Quiescent(i) ==
    /\ thrown = "none"
    /\ sess[i].phase = "run"
    /\ sess[i].stat = FileSize(LogOf(sess[i]))
    /\ ~sess[i].inflight

Recognized == {QUERY_EVENT, STOP_EVENT, ROTATE_EVENT, INTVAR_EVENT}

\* magic, format description, then Query, Stop, IntVar and unrecognized events
PlainLog(log) ==
    /\ ValidLog(log)
    /\ \A j \in 2..Len(log.events) : log.events[j].type # ROTATE_EVENT

Brief(n) == <<n.kind, n.ts, n.db, n.text>>

\* what a log's events are to produce from event k on: a Query per Query
\* event, a ServerStopped per Stop event, in file order
RECURSIVE ExpectedFrom(_, _)
ExpectedFrom(es, k) ==
    IF k > Len(es) THEN <<>>
    ELSE (CASE es[k].type = QUERY_EVENT -> << <<"query", es[k].ts, es[k].db, es[k].text>> >>
            [] es[k].type = STOP_EVENT -> << <<"stop", es[k].ts, <<>>, <<>> >> >>
            [] OTHER -> <<>>)
         \o ExpectedFrom(es, k + 1)

Expected(log) == << <<"log", log.events[1].ts, <<>>, <<>> >> >> \o ExpectedFrom(log.events, 2)

Briefs(ns) == [k \in 1..Len(ns) |-> Brief(ns[k])]

\* ------------------------------------------------------------------------
\* C1.  A well-formed single-file log decoded with no fast-forward threshold:
\* when decoding has come to rest the session has published LogStarted, then
\* one Query per Query event and one ServerStopped per Stop event in file
\* order and nothing else, and fileOffset equals the file size.
\* ------------------------------------------------------------------------
C1_DecodesWholeFile ==
    \A i \in DOMAIN sess :
        (~sess[i].fastForward /\ PlainLog(LogOf(sess[i])) /\ Quiescent(i)) =>
            /\ Briefs(NotifsOf(i)) = Expected(LogOf(sess[i]))
            /\ sess[i].fileOffset = FileSize(LogOf(sess[i]))

\* ------------------------------------------------------------------------
\* C2.  Fast-forward with threshold S (the size the initial stat returned):
\* a Query event that lies entirely below S is never published; a Query event
\* that starts at or after S has been published exactly once when the whole
\* file is known and decoding has come to rest.
\* ------------------------------------------------------------------------
C2_FastForward ==
    \A i \in DOMAIN sess :
        (sess[i].fastForward /\ sess[i].fastForwardUntil # Undef /\ PlainLog(LogOf(sess[i]))) =>
            \A j \in 2..Len(Events(i)) :
                Events(i)[j].type = QUERY_EVENT =>
                    /\ EventEnd(LogOf(sess[i]), j) <= sess[i].fastForwardUntil
                         => Count(i, "query", Events(i)[j].ts) = 0
                    /\ (EventStart(LogOf(sess[i]), j) >= sess[i].fastForwardUntil /\ Quiescent(i))
                         => Count(i, "query", Events(i)[j].ts) = 1

EventWithTs(i, ts) == CHOOSE j \in 1..Len(Events(i)) : Events(i)[j].ts = ts

\* ------------------------------------------------------------------------
\* C4.  Carry round-trip: a published Query whose event directly follows a
\* hint event with selector 1 or 2 and value v (0 included) carries meta with
\* exactly v in the selected field; a published Query with no hint event
\* since the previously published Query carries no meta.
\* ------------------------------------------------------------------------
C4_CarryRoundTrip ==
    \A k \in 1..Len(out) :
        (out[k].kind = "query" /\ ValidLog(LogOf(sess[out[k].sid]))) =>
            LET i == out[k].sid
                j == EventWithTs(i, out[k].ts)
                hint == Events(i)[j - 1]
                earlier == { m \in 2..(j - 1) :
                               /\ Events(i)[m].type = QUERY_EVENT
                               /\ Count(i, "query", Events(i)[m].ts) = 1
                               /\ \A h \in (m + 1)..(j - 1) :
                                     Events(i)[h].type # INTVAR_EVENT }
            IN  /\ (hint.type = INTVAR_EVENT /\ hint.sel = LAST_INSERT_ID_EVENT)
                      => (out[k].hasMeta /\ out[k].lastInsertId = hint.val)
                /\ (hint.type = INTVAR_EVENT /\ hint.sel = INSERT_ID_EVENT)
                      => (out[k].hasMeta /\ out[k].autoIncrement = hint.val)
                /\ earlier # {} => ~out[k].hasMeta

\* ------------------------------------------------------------------------
\* C5.  Skip-correctness: when the decoder processes the header of an event
\* whose type code is none of 2, 3, 4, 5 and whose declared length is L,
\* fileOffset becomes the offset of the header plus L, no read is issued and
\* nothing is published.
\* ------------------------------------------------------------------------
C5_SkipCorrect ==
    [][ \A i \in DOMAIN sess :
          \A j \in 2..Len(Events(i)) :
            (/\ ValidLog(LogOf(sess[i]))
             /\ Events(i)[j].type \notin Recognized
             /\ sess[i].didReadCallback = "expectEvent"
             /\ sess[i].readPos = EventStart(LogOf(sess[i]), j)
             /\ ReadDone(i))
            => /\ sess'[i].fileOffset = EventStart(LogOf(sess[i]), j) + EventLen(Events(i)[j])
               /\ ~sess'[i].inflight
               /\ out' = out ]_vars

\* an unrecognized event has been processed: the offset is at its end
C5_Witness ==
    \E i \in DOMAIN sess :
        \E j \in 2..Len(Events(i)) :
            /\ ValidLog(LogOf(sess[i]))
            /\ Events(i)[j].type \notin Recognized
            /\ sess[i].phase = "run"
            /\ sess[i].didReadCallback = "expectEvent"
            /\ sess[i].fileOffset = EventEnd(LogOf(sess[i]), j)
            /\ j < Len(Events(i))

\* ------------------------------------------------------------------------
\* C6.  After an unrecognized event is skipped the decoder is back in
\* ExpectEvent: a request for a 19-byte header is pending, and the Query
\* events that follow it in the file have been published when decoding has
\* come to rest.
\* ------------------------------------------------------------------------
C6_LoopsBack ==
    \A i \in DOMAIN sess :
        \A j \in 2..Len(Events(i)) :
            (/\ ValidLog(LogOf(sess[i]))
             /\ Events(i)[j].type \notin Recognized
             /\ sess[i].handle = "open"
             /\ sess[i].didReadCallback = "expectEvent"
             /\ sess[i].fileOffset = EventEnd(LogOf(sess[i]), j))
            => /\ sess[i].bytesWanted = HeaderLen
               /\ (Quiescent(i) /\ ~sess[i].fastForward /\ PlainLog(LogOf(sess[i]))) =>
                    \A m \in (j + 1)..Len(Events(i)) :
                        Events(i)[m].type = QUERY_EVENT
                            => Count(i, "query", Events(i)[m].ts) = 1

\* ------------------------------------------------------------------------
\* C7.  A Stop event does not end the session: once ServerStopped is
\* published the handle stays open and the watch registered, no growth
\* signal makes a callback throw, and the Query events after the Stop event
\* have been published when decoding has come to rest.
\* ------------------------------------------------------------------------
C7_StopIsNotHardStop ==
    \A i \in DOMAIN sess :
        \A j \in 2..Len(Events(i)) :
            (/\ PlainLog(LogOf(sess[i]))
             /\ Events(i)[j].type = STOP_EVENT
             /\ Count(i, "stop", Events(i)[j].ts) >= 1)
            => /\ sess[i].handle = "open"
               /\ sess[i].watching
               /\ thrown = "none"
               /\ (Quiescent(i) /\ ~sess[i].fastForward) =>
                    \A m \in (j + 1)..Len(Events(i)) :
                        Events(i)[m].type = QUERY_EVENT
                            => Count(i, "query", Events(i)[m].ts) = 1

\* ------------------------------------------------------------------------
\* C8 as stated.  In every step fileOffset does not decrease, and fileOffset
\* is at most the known file size (the size of the last stat / watch result).
\* ------------------------------------------------------------------------
C8_Original ==
    [][ \A i \in DOMAIN sess :
          /\ sess'[i].fileOffset >= sess[i].fileOffset
          /\ sess'[i].stat # Undef => sess'[i].fileOffset <= sess'[i].stat ]_vars

\* ------------------------------------------------------------------------
\* C8 as amended.  In every step fileOffset does not decrease, and a
\* physical read in flight starts at fileOffset and ends within the known
\* file size (so fileOffset is at most the known size when the read
\* completes); a logical skip may leave fileOffset beyond the known size.
\* ------------------------------------------------------------------------
C8_OffsetMonotoneReadsInBounds ==
    [][ \A i \in DOMAIN sess :
          /\ sess'[i].fileOffset >= sess[i].fileOffset
          /\ sess'[i].inflight =>
                /\ sess'[i].readPos = sess'[i].fileOffset
                /\ sess'[i].readPos + sess'[i].readLen <= sess'[i].stat ]_vars

\* after the skip of the format-description body the offset has advanced past
\* what was read, and the next header is being read up to exactly the known
\* size of the file
C8_Witness ==
    \E i \in DOMAIN sess :
        /\ ValidLog(LogOf(sess[i]))
        /\ sess[i].inflight
        /\ sess[i].fileOffset = EventStart(LogOf(sess[i]), 2)
        /\ sess[i].readPos = sess[i].fileOffset
        /\ sess[i].readPos + sess[i].readLen = sess[i].stat

\* ------------------------------------------------------------------------
\* C9.  A failed physical read tears the session down (watch removed, handle
\* closed, no read in flight) and exactly one Error notification is published
\* for it.
\* ------------------------------------------------------------------------
C9_ReadErrorPublished ==
    \A i \in DOMAIN sess :
        sess[i].phase = "readerror" =>
            /\ ~sess[i].watching
            /\ sess[i].handle = "closed"
            /\ ~sess[i].inflight
            /\ CountKind(i, "error") = 1

\* the session has read a wrong magic number, or a first event header whose
\* type is not the format description
BadMagicRead(i) ==
    LogOf(sess[i]).magic # Magic /\ sess[i].fileOffset >= MagicLen

BadFirstEventRead(i) ==
    /\ LogOf(sess[i]).magic = Magic
    /\ Events(i)[1].type # FORMAT_DESCRIPTION_EVENT
    /\ sess[i].fileOffset >= MagicLen + HeaderLen

\* ------------------------------------------------------------------------
\* C10.  Fatal format errors: once a session has read a wrong magic number
\* or a first event that is not the format description, it is stopped (not
\* ready, watch removed, handle closed, no read in flight, offset unchanged)
\* and the Error notification is the only notification it has published.
\* ------------------------------------------------------------------------
C10_FatalFormat ==
    \A i \in DOMAIN sess :
        /\ BadMagicRead(i) =>
              /\ NotifsOf(i) = << ErrorN(i, "Invalid binlog") >>
              /\ sess[i].fileOffset = MagicLen
              /\ ~sess[i].ready /\ ~sess[i].watching /\ ~sess[i].inflight
              /\ sess[i].handle = "closed"
        /\ BadFirstEventRead(i) =>
              /\ NotifsOf(i) = << ErrorN(i, "Invalid binlog version") >>
              /\ sess[i].fileOffset = MagicLen + HeaderLen
              /\ ~sess[i].ready /\ ~sess[i].watching /\ ~sess[i].inflight
              /\ sess[i].handle = "closed"

\* a session stopped on a wrong magic number although the whole file,
\* a format description and a Query event included, was known
C10_Witness ==
    \E i \in DOMAIN sess :
        /\ BadMagicRead(i)
        /\ sess[i].stat = FileSize(LogOf(sess[i]))
        /\ Len(Events(i)) >= 2
        /\ CountKind(i, "error") = 1

\* is p a prefix of q
IsPrefix(p, q) == Len(p) <= Len(q) /\ \A k \in 1..Len(p) : p[k] = q[k]

\* what the example file is to produce
ExampleNotifs(i) ==
    << LogN(i, Events(i)[1].ts, sess[i].file),
       QueryN(i, Events(i)[2].ts, AppName, InsertText, FALSE, Undef, Undef),
       StopN(i, Events(i)[3].ts) >>

\* session i decodes the example file with no fast-forward threshold, and
\* its stat and open have not failed
IsExample(i) ==
    /\ \E f \in Files : LogOf(sess[i]) = ExampleLog(f)
    /\ ~sess[i].fastForward
    /\ sess[i].phase # "failed"

\* ------------------------------------------------------------------------
\* C11.  End-to-end example: for the file holding the magic, a format
\* description, the Query for "INSERT INTO t VALUES (1)" against "app" and a
\* Stop event, decoded with no fast-forward threshold (stat and open
\* succeeding), what is published is
\* at every moment a prefix of LogStarted, Query{app, INSERT ...},
\* ServerStopped, and is exactly that sequence once the Stop event's header
\* has been read.
\* ------------------------------------------------------------------------
C11_EndToEnd ==
    \A i \in DOMAIN sess :
        IsExample(i) =>
            /\ IsPrefix(NotifsOf(i), ExampleNotifs(i))
            /\ sess[i].fileOffset = FileSize(LogOf(sess[i]))
                  => NotifsOf(i) = ExampleNotifs(i)

\* the whole example file has been decoded
C11_Witness ==
    \E i \in DOMAIN sess :
        /\ IsExample(i)
        /\ sess[i].fileOffset = FileSize(LogOf(sess[i]))
        /\ Len(NotifsOf(i)) = 3

\* ------------------------------------------------------------------------
\* C12.  Single outstanding read: a session never has more than one fs.read
\* in flight; a step that runs while a read is in flight and is not that
\* read's callback (a watch notification) issues no read; and a recorded
\* request (bytesWanted, didReadCallback) is replaced only in the callback of
\* the read that satisfied it.
\* ------------------------------------------------------------------------
C12_SingleOutstandingRead ==
    [][ \A i \in DOMAIN sess :
          /\ sess'[i].issued - sess'[i].returned \in {0, 1}
          /\ sess'[i].inflight <=> (sess'[i].issued - sess'[i].returned = 1)
          /\ (sess[i].inflight /\ sess'[i].returned = sess[i].returned)
                => sess'[i].issued = sess[i].issued
          /\ (/\ sess[i].bytesWanted > 0
              /\ \/ sess'[i].bytesWanted # sess[i].bytesWanted
                 \/ sess'[i].didReadCallback # sess[i].didReadCallback)
                => /\ sess[i].inflight
                   /\ sess'[i].returned = sess[i].returned + 1
                   /\ sess[i].readLen = sess[i].bytesWanted ]_vars

\* the first read was issued by the open callback and a watch notification
\* reporting a larger file has arrived while it is in flight
C12_Witness ==
    \E i \in DOMAIN sess :
        /\ sess[i].inflight
        /\ sess[i].issued = 1
        /\ sess[i].fastForward
        /\ sess[i].fastForwardUntil >= MagicLen
        /\ sess[i].stat > sess[i].fastForwardUntil

\* ------------------------------------------------------------------------
\* C13.  Every fs.read is issued at the current fileOffset for exactly
\* bytesWanted (> 0) bytes, and only when fileOffset + bytesWanted is at most
\* the known file size at that moment; when its callback runs without error
\* fileOffset is advanced from the read's position by exactly the read's
\* length (before the continuation runs).
\* ------------------------------------------------------------------------
C13_ReadsAtOffsetInBounds ==
    [][ \A i \in DOMAIN sess :
          /\ sess'[i].issued = sess[i].issued + 1
                => /\ sess'[i].readPos = sess'[i].fileOffset
                   /\ sess'[i].readLen = sess'[i].bytesWanted
                   /\ sess'[i].readLen > 0
                   /\ sess'[i].readPos + sess'[i].readLen <= sess'[i].stat
          /\ (sess'[i].returned = sess[i].returned + 1 /\ sess'[i].phase # "readerror")
                => /\ sess[i].fileOffset = sess[i].readPos
                   /\ sess'[i].lastReadEnd = sess[i].readPos + sess[i].readLen ]_vars

\* the format-description header has been read (offset 23), its body skipped,
\* and the next header is being read at the offset after the skip
C13_Witness ==
    \E i \in DOMAIN sess :
        /\ sess[i].returned = 2
        /\ sess[i].lastReadEnd = MagicLen + HeaderLen
        /\ sess[i].inflight
        /\ sess[i].readPos = EventStart(LogOf(sess[i]), 2)
        /\ sess[i].readLen = HeaderLen

\* ------------------------------------------------------------------------
\* C14.  Waiting for data is not an error.  A live session whose request
\* for n = bytesWanted > 0 bytes is recorded and not in flight is waiting:
\* the known size is below fileOffset + n.  A file-growth signal that leaves
\* the size below fileOffset + n publishes nothing, throws nothing and
\* leaves the request as recorded; a signal that reports at least
\* fileOffset + n issues the read for that request in the same step; and
\* every read in flight is eventually answered, once (its continuation runs
\* unless fs.read itself reports an error).
\* ------------------------------------------------------------------------
Waiting(s) == s.ready /\ s.bytesWanted > 0

C14_WaitingIsNotAnError ==
    /\ [](\A i \in DOMAIN sess :
            Waiting(sess[i]) => sess[i].stat < sess[i].fileOffset + sess[i].bytesWanted)
    /\ [][ \A i \in DOMAIN sess :
             (Waiting(sess[i]) /\ sess'[i] # sess[i]) =>
                /\ out' = out
                /\ thrown' = "none"
                /\ sess'[i].stat > sess[i].stat
                /\ sess'[i].returned = sess[i].returned
                /\ IF sess'[i].stat < sess[i].fileOffset + sess[i].bytesWanted
                   THEN sess'[i] = [sess[i] EXCEPT !.stat = sess'[i].stat]
                   ELSE sess'[i] = [sess[i] EXCEPT !.stat = sess'[i].stat,
                                                   !.ready = FALSE,
                                                   !.inflight = TRUE,
                                                   !.issued = @ + 1,
                                                   !.readPos = sess[i].fileOffset,
                                                   !.readLen = sess[i].bytesWanted] ]_vars
    /\ \A i \in SessionIds :
          (i \in DOMAIN sess /\ sess[i].inflight)
             ~> (i \in DOMAIN sess /\ ~sess[i].inflight
                   /\ sess[i].returned = sess[i].issued)

\* the file was empty when it was opened, so the first request waited; a
\* later growth signal reported enough bytes and the read is in flight
C14_Witness ==
    \E i \in DOMAIN sess :
        /\ sess[i].fastForwardUntil = 0
        /\ sess[i].issued = 1
        /\ sess[i].inflight
        /\ sess[i].readLen = MagicLen

\* ------------------------------------------------------------------------
\* C15.  At most one file is open for reading at any time.  When a Rotate
\* event is processed the session's watch is removed and its handle closed
\* before 'rotate' is published (the notification is published with the
\* handle no longer open) and before the successor session exists; a
\* session that has published 'rotate' is torn down (no watch, handle
\* closed, not ready, no read in flight) and from then on issues no read
\* and publishes nothing.
\* ------------------------------------------------------------------------
HasRotated(i) == CountKind(i, "rotate") > 0

TornDown(s) == ~s.watching /\ s.handle = "closed" /\ ~s.ready /\ ~s.inflight

C15_OneFileOpen ==
    /\ [](/\ Cardinality({ i \in DOMAIN sess : sess[i].handle = "open" }) <= 1
          /\ \A i \in DOMAIN sess :
               /\ i < Len(sess) => HasRotated(i)
               /\ HasRotated(i) => TornDown(sess[i])
               /\ \A k \in 1..Len(NotifsOf(i)) :
                    NotifsOf(i)[k].kind = "rotate" => ~sess[i].emitLive[k])
    /\ [][ \A i \in DOMAIN sess :
             HasRotated(i) => /\ sess'[i] = sess[i]
                              /\ NotifsOf(i)' = NotifsOf(i) ]_vars

\* the successor session has its file open and a read in flight after the
\* first session published 'rotate'
C15_Witness ==
    /\ Len(sess) = 2
    /\ HasRotated(1)
    /\ sess[2].handle = "open"
    /\ sess[2].inflight
    /\ sess[2].issued >= 2

\* ------------------------------------------------------------------------
\* C16.  The carry is reset on rotation.  A session created by a rotation
\* starts with lastInsertId and autoIncrement unset; a carry field of such
\* a session is set only after an IntVar event of its own file has been
\* read; and a Query notification of such a session carries meta only if
\* an IntVar event precedes that Query event in its own file.  So a carry
\* left unconsumed in the previous file is never attached to a Query of the
\* successor.
\* ------------------------------------------------------------------------
QueryNotifs(i) == SelectSeq(NotifsOf(i), LAMBDA n : n.kind = "query")

\* the index in the file of session i of its k-th Query event
KthQuery(i, k) ==
    CHOOSE j \in 1..Len(Events(i)) :
        /\ Events(i)[j].type = QUERY_EVENT
        /\ Cardinality({ h \in 1..j : Events(i)[h].type = QUERY_EVENT }) = k

C16_CarryResetOnRotation ==
    \A i \in DOMAIN sess : i > 1 =>
        /\ sess[i].phase \in {"stat", "open"}
              => sess[i].lastInsertId = Undef /\ sess[i].autoIncrement = Undef
        /\ (sess[i].lastInsertId # Undef \/ sess[i].autoIncrement # Undef)
              => \E h \in 1..Len(Events(i)) :
                    /\ Events(i)[h].type = INTVAR_EVENT
                    /\ EventEnd(LogOf(sess[i]), h) <= sess[i].fileOffset
        /\ \A k \in 1..Len(QueryNotifs(i)) :
              QueryNotifs(i)[k].hasMeta
                 => \E h \in 1..KthQuery(i, k) : Events(i)[h].type = INTVAR_EVENT

\* the first session rotated with a hint still in its carry, and the
\* successor has published a Query without meta
C16_Witness ==
    /\ Len(sess) = 2
    /\ sess[1].lastInsertId = 513
    /\ HasRotated(1)
    /\ Len(QueryNotifs(2)) >= 1
    /\ ~QueryNotifs(2)[1].hasMeta

\* ------------------------------------------------------------------------
\* C17.  Fast-forward does not touch the carry.  (a) A step that processes
\* the header of a Query event in the fast-forward branch leaves both carry
\* fields unchanged and publishes nothing.  (b) A step that completes the
\* read of an IntVar body sets the selected carry field to the hinted
\* value, below the threshold as above it.  (c) When a fast-forward session
\* publishes its first Query and the event before it, other than Query
\* events, is an IntVar event (selector 1 or 2) that ends at or below the
\* threshold, the notification carries meta with the hinted value in the
\* selected field.
\* ------------------------------------------------------------------------
ReadCompletes(i) ==
    /\ sess[i].inflight
    /\ sess'[i].returned = sess[i].returned + 1
    /\ sess'[i].phase # "readerror"

\* the last event before event j of session i that is not a Query event
LastNonQuery(i, j) ==
    CHOOSE h \in 1..(j - 1) :
        /\ Events(i)[h].type # QUERY_EVENT
        /\ \A m \in (h + 1)..(j - 1) : Events(i)[m].type = QUERY_EVENT

C17_FastForwardKeepsCarry ==
    [][ \A i \in DOMAIN sess :
          /\ (/\ ReadCompletes(i)
              /\ sess[i].didReadCallback = "expectEvent"
              /\ At(ReadBuffer(sess[i]), 4) = QUERY_EVENT
              /\ sess[i].fastForwardUntil # Undef
              /\ sess[i].fastForwardUntil > sess[i].readPos + sess[i].readLen)
                => /\ sess'[i].lastInsertId = sess[i].lastInsertId
                   /\ sess'[i].autoIncrement = sess[i].autoIncrement
                   /\ out' = out
          /\ (ReadCompletes(i) /\ sess[i].didReadCallback = "parseAutoInt")
                => /\ At(ReadBuffer(sess[i]), 0) = LAST_INSERT_ID_EVENT
                         => sess'[i].lastInsertId = readInt(ReadBuffer(sess[i]), 1)
                   /\ At(ReadBuffer(sess[i]), 0) = INSERT_ID_EVENT
                         => sess'[i].autoIncrement = readInt(ReadBuffer(sess[i]), 1)
          /\ (/\ ReadCompletes(i)
              /\ sess[i].didReadCallback = "parseQueryEvent"
              /\ sess[i].fastForwardUntil # Undef
              /\ CountKind(i, "query") = 0
              /\ ValidLog(LogOf(sess[i])))
                => LET n == out'[Len(out')]
                       j == EventWithTs(i, n.ts)
                       hint == Events(i)[LastNonQuery(i, j)]
                   IN  /\ Len(out') = Len(out) + 1
                       /\ n.kind = "query" /\ n.sid = i
                       /\ (/\ hint.type = INTVAR_EVENT
                           /\ hint.sel \in {LAST_INSERT_ID_EVENT, INSERT_ID_EVENT}
                           /\ EventEnd(LogOf(sess[i]), LastNonQuery(i, j))
                                 <= sess[i].fastForwardUntil)
                            => /\ n.hasMeta
                               /\ hint.sel = LAST_INSERT_ID_EVENT
                                     => n.lastInsertId = hint.val
                               /\ hint.sel = INSERT_ID_EVENT
                                     => n.autoIncrement = hint.val ]_vars

\* ------------------------------------------------------------------------
\* C18.  If the stat or the open of a session's file fails, exactly one
\* Error notification carrying the cause is published, and that session
\* registers no watch, issues no read and publishes nothing else, ever.
\* The fast-forward threshold is recorded only for the session created at
\* Tailer start (session 1, fastForward set), in its stat callback, as the
\* size that stat returned, and it is never changed afterwards.
\* ------------------------------------------------------------------------
C18_StartFailureAndThreshold ==
    [][ \A i \in DOMAIN sess :
          /\ sess'[i].phase = "failed"
                => /\ NotifsOf(i)' =
                        << ErrorN(i, IF sess'[i].stat = Undef THEN "stat" ELSE "open") >>
                   /\ ~sess'[i].watching
                   /\ sess'[i].handle # "open"
                   /\ sess'[i].issued = 0
                   /\ ~sess'[i].inflight
          /\ sess[i].phase = "failed" => sess'[i] = sess[i]
          /\ sess'[i].fastForwardUntil # Undef => i = 1 /\ sess'[i].fastForward
          /\ sess[i].phase = "stat"
                => \/ sess'[i].fastForwardUntil = Undef /\ sess'[i].stat = Undef
                   \/ sess'[i].fastForwardUntil = Undef /\ ~sess'[i].fastForward
                   \/ sess'[i].fastForwardUntil = sess'[i].stat /\ sess'[i].fastForward
          /\ sess[i].phase # "stat"
                => sess'[i].fastForwardUntil = sess[i].fastForwardUntil ]_vars

\* the first session recorded its threshold and then failed to open; the
\* file has data but the session published the Error and nothing else
C18_Witness ==
    /\ sess[1].phase = "failed"
    /\ sess[1].fastForward
    /\ sess[1].fastForwardUntil = sess[1].stat
    /\ sess[1].stat > MagicLen
    /\ out = << ErrorN(1, "open") >>

\* ------------------------------------------------------------------------
\* C19.  Query body decoding.  For every published Query notification, with
\* b the bytes of its event after the 19-byte header up to the declared
\* event length, L = b[8] and S = b[11] + 256 * b[12]: the notification's
\* database is bytes b[13+S .. 13+S+L-1] and its text is bytes
\* b[14+L+S .. end of b] (they are the schema name and the statement the
\* event was written with).  The read of a Query body follows a header
\* whose byte 4 is the Query type code and asks for the little-endian
\* 32-bit value at header bytes 9..12, minus 19, bytes.
\* ------------------------------------------------------------------------
\* bytes [from, to) of the file of session i, offsets counted from 0
FileBytes(i, from, to) ==
    [ n \in 1..(to - from) |-> Bytes(LogOf(sess[i]))[from + n] ]

C19_QueryBodyDecoding ==
    /\ \A k \in 1..Len(out) :
         (out[k].kind = "query" /\ ValidLog(LogOf(sess[out[k].sid]))) =>
            LET i == out[k].sid
                j == EventWithTs(i, out[k].ts)
                b == FileBytes(i, EventStart(LogOf(sess[i]), j) + HeaderLen,
                                  EventEnd(LogOf(sess[i]), j))
                L == b[8 + 1]
                S == b[11 + 1] + 256 * b[12 + 1]
            IN  /\ Events(i)[j].type = QUERY_EVENT
                /\ out[k].db = [ n \in 1..L |-> b[13 + S + n] ]
                /\ out[k].text = [ n \in 1..(Len(b) - (14 + L + S)) |-> b[14 + L + S + n] ]
                /\ out[k].db = Events(i)[j].db
                /\ out[k].text = Events(i)[j].text
    /\ \A i \in DOMAIN sess :
         (sess[i].inflight /\ sess[i].didReadCallback = "parseQueryEvent") =>
            LET h == FileBytes(i, sess[i].readPos - HeaderLen, sess[i].readPos)
            IN  /\ h[4 + 1] = QUERY_EVENT
                /\ sess[i].readLen =
                     h[10] + 256 * h[11] + 65536 * h[12] + 16777216 * h[13] - HeaderLen

\* the Query whose status-variables block is 257 bytes long (both bytes of
\* S are used) has been published with its schema name
C19_Witness ==
    \E k \in 1..Len(out) :
        /\ out[k].kind = "query"
        /\ out[k].ts = 800
        /\ out[k].db = AppName
        /\ out[k].text = <<120, 121>>

\* ------------------------------------------------------------------------
\* C20.  The 'No bytes wanted?' assertion of readChunk is unreachable: no
\* callback has thrown it, and whenever a live session (file open, watch
\* registered) is ready, so that the next readChunk passes the ready test,
\* a request with a byte count greater than 0 is pending.
\* ------------------------------------------------------------------------
C20_NoBytesWantedUnreachable ==
    /\ thrown # "No bytes wanted?"
    /\ \A i \in DOMAIN sess :
         (sess[i].handle = "open" /\ sess[i].watching /\ sess[i].ready)
            => sess[i].bytesWanted > 0

====
